---- MODULE Spec2Model ----
(***************************************************************************)
(* Model of the client-side orchestration in frontend/src/App.jsx: the     *)
(* watchlist store, the detail loader, the news pagination and the         *)
(* busy/error coordination, together with the REST backend it talks to.    *)
(*                                                                         *)
(* One action is one JavaScript task: a click handler, or the continuation *)
(* of an awaited fetch up to its next await, followed by the render React  *)
(* commits for the batched state updates and by the effect hooks that      *)
(* render triggers.  A function closes over the state of the render it was *)
(* created in, so an operation that is suspended at an await keeps reading *)
(* the selectedTicker of the render that started it; that captured value   *)
(* is the field sel of the operation's record.                             *)
(*                                                                         *)
(* The add form's input is a sequence of one-character strings, so that    *)
(* trim and toUpperCase are computed and not assumed.                      *)
(***************************************************************************)
EXTENDS Integers, Sequences, FiniteSets, Bags, TLC

\* ------------------------------------------------------------------ bounds
MaxGestures == 3    \* user gestures (clicks, submits) in one session

\* --------------------------------------------------------------- constants
Empty == ""                         \* the empty string, falsy in JavaScript
AAPL == "AAPL"
MSFT == "MSFT"
NFLX == "NFLX"

\* The suggested chips (the first two of the seven of the source).
SUGGESTED_TICKERS == <<AAPL, MSFT>>

\* What the user types into the add form, character by character.
RawInputs ==
    { <<"m", "s", "f", "t", " ">>,
      <<" ", "N", "f", "l", "x">>,
      <<" ", " ">> }

\* The backend's watchlist when the page is opened.
InitialServerLists == { <<>>, <<AAPL>>, <<NFLX, AAPL, MSFT>> }

NoError == "none"
WatchlistError == "Failed loading watchlist"
DetailError == "Failed loading detail"
AddError == "Failed adding ticker"
RemoveError == "Failed removing ticker"

Fetches == {"prices", "news", "latest"}

\* ------------------------------------------------------------------- state
VARIABLES
    watchlist,       \* useState([]): sequence of tickers
    selectedTicker,  \* useState("")
    prices,          \* useState([]): the price items on display
    news,            \* useState([]): the news items on display
    newsPage,        \* useState(1)
    newsHasNext,     \* useState(false)
    latest,          \* useState(null): <<>> is null, <<r>> the record r
    busy,            \* useState(false)
    error,           \* useState("")
    initialRefresh,  \* the mount effect's refreshWatchlist: "pending" or "done"
    mutations,       \* bag of the add/remove operations suspended at an await
    loads,           \* bag of the loadTickerDetail calls suspended at Promise.all
    server,          \* the backend's watchlist
    gestures,        \* the number of user gestures so far
    ev               \* the task that produced this state

vars == <<watchlist, selectedTicker, prices, news, newsPage, newsHasNext, latest,
          busy, error, initialRefresh, mutations, loads, server, gestures, ev>>

\* ----------------------------------------------------------- pure helpers
Max(a, b) == IF a >= b THEN a ELSE b

Includes(list, t) == \E i \in 1..Len(list) : list[i] = t

Count(list, t) == Cardinality({i \in 1..Len(list) : list[i] = t})

RECURSIVE Without(_, _)
Without(list, t) ==
    IF list = <<>> THEN <<>>
    ELSE IF Head(list) = t THEN Without(Tail(list), t)
    ELSE <<Head(list)>> \o Without(Tail(list), t)

LowerChars == <<"a", "f", "l", "m", "n", "p", "s", "t", "x">>
UpperChars == <<"A", "F", "L", "M", "N", "P", "S", "T", "X">>

ToUpperChar(c) ==
    IF \E i \in 1..Len(LowerChars) : LowerChars[i] = c
    THEN UpperChars[CHOOSE i \in 1..Len(LowerChars) : LowerChars[i] = c]
    ELSE c

ToUpperCase(s) == [i \in 1..Len(s) |-> ToUpperChar(s[i])]

RECURSIVE TrimStart(_)
TrimStart(s) ==
    IF s # <<>> /\ Head(s) = " " THEN TrimStart(Tail(s)) ELSE s

RECURSIVE TrimEnd(_)
TrimEnd(s) ==
    IF s # <<>> /\ s[Len(s)] = " " THEN TrimEnd(SubSeq(s, 1, Len(s) - 1)) ELSE s

Trim(s) == TrimEnd(TrimStart(s))

\* the string of a sequence of characters
RECURSIVE Join(_)
Join(chars) == IF chars = <<>> THEN "" ELSE Head(chars) \o Join(Tail(chars))

sanitizeTicker(value) == Join(ToUpperCase(Trim(value)))

\* useMemo, App.jsx 80-83
selectedInWatchlist ==
    IF selectedTicker # Empty THEN Includes(watchlist, selectedTicker) ELSE FALSE

\* payload.tickers[0] || ""
First(list) == IF Len(list) > 0 THEN list[1] ELSE Empty

\* The selection refreshWatchlist leaves: closureSel is the selectedTicker its
\* closure reads, current the selection on screen, tickers the payload.
RefreshSelection(closureSel, current, tickers) ==
    IF closureSel = Empty /\ Len(tickers) > 0 THEN tickers[1]
    ELSE IF closureSel # Empty /\ ~Includes(tickers, closureSel)
         THEN First(tickers)
    ELSE current

PrevPage(prev) == Max(prev - 1, 1)
\* NextPage with the bug of stepping the wrong way.
NextPage_Decrements(prev) == prev - 1

NextPage(prev) == prev + 1

PrevDisabled == newsPage <= 1
\* NextDisabled with the bug of a Next control that is never disabled.
NextDisabled_Never == FALSE

NextDisabled == ~newsHasNext
AddDisabled == busy
\* RemoveDisabled with the bug of looking at busy alone.
RemoveDisabled_BusyOnly == busy

RemoveDisabled == ~selectedInWatchlist \/ busy

PricePayload(ticker) == <<ticker>>
NewsPayload(ticker, page) == << <<ticker, page>> >>
LatestPayload(ticker) == <<ticker>>

\* ----------------------------------------------------------------- backend
\* POST /watchlist: 201 and the ticker appended, or 409 when already present.
ServerPost(list, t) ==
    IF Includes(list, t) THEN [status |-> 409, list |-> list]
    ELSE [status |-> 201, list |-> Append(list, t)]

\* DELETE /watchlist/{ticker}: 200 and the ticker removed, or 404.
ServerDelete(list, t) ==
    IF Includes(list, t) THEN [status |-> 200, list |-> Without(list, t)]
    ELSE [status |-> 404, list |-> list]

ResponseOk(status) == status >= 200 /\ status <= 299

\* addTicker's test of the POST response, App.jsx 145
AddAccepts(status) == ~(~ResponseOk(status) /\ status # 409)

Event(op, ticker, page, sel, status) ==
    [op |-> op, ticker |-> ticker, page |-> page, sel |-> sel, status |-> status]

One(x) == SetToBag({x})

\* ------------------------------------------------------------------- Init
\* The state after the first render and its two effects: the mount effect has
\* set busy and issued GET /watchlist; the detail effect returned at once
\* because nothing is selected.
Init ==
    /\ watchlist = <<>>
    /\ selectedTicker = Empty
    /\ prices = <<>>
    /\ news = <<>>
    /\ newsPage = 1
    /\ newsHasNext = FALSE
    /\ latest = <<>>
    /\ busy = TRUE
    /\ error = NoError
    /\ initialRefresh = "pending"
    /\ mutations = EmptyBag
    /\ loads = EmptyBag
    /\ server \in InitialServerLists
    /\ gestures = 0
    /\ ev = Event("mount", Empty, 1, Empty, 0)

\* ----------------------------------------------------------------- commit
\* Commit with the bug of an effect that does not reset the error.
Commit_EffectKeepsError(sel, page, b, e, ls) ==
    /\ selectedTicker' = sel
    /\ newsPage' = page
    /\ IF <<sel, page>> # <<selectedTicker, newsPage>> /\ sel # Empty
       THEN /\ busy' = TRUE
            /\ error' = e
            /\ loads' = ls (+) One([ticker |-> sel, page |-> page])
       ELSE /\ busy' = b
            /\ error' = e
            /\ loads' = ls

\* The render that ends a task, with the detail effect of App.jsx 121-130:
\* sel and page are the task's selectedTicker and newsPage, b and e the busy
\* and error it leaves, ls the loads still in flight.
Commit(sel, page, b, e, ls) ==
    /\ selectedTicker' = sel
    /\ newsPage' = page
    /\ IF <<sel, page>> # <<selectedTicker, newsPage>> /\ sel # Empty
       THEN /\ busy' = TRUE
            /\ error' = NoError
            /\ loads' = ls (+) One([ticker |-> sel, page |-> page])
       ELSE /\ busy' = b
            /\ error' = e
            /\ loads' = ls


\* ---------------------------------------------------------- user gestures
\* A suggested chip's onClick, App.jsx 211-214
SelectChip ==
    /\ gestures < MaxGestures
    /\ gestures' = gestures + 1
    /\ \E i \in 1..Len(SUGGESTED_TICKERS) :
           LET ticker == SUGGESTED_TICKERS[i] IN
           /\ Commit(ticker, 1, busy, error, loads)
           /\ ev' = Event("select", ticker, 1, Empty, 0)
           /\ UNCHANGED <<watchlist, prices, news, newsHasNext, latest,
                          initialRefresh, mutations, server>>

\* A watchlist row's ticker button, App.jsx 245-248
SelectRow ==
    /\ gestures < MaxGestures
    /\ gestures' = gestures + 1
    /\ \E i \in 1..Len(watchlist) :
           LET ticker == watchlist[i] IN
           /\ Commit(ticker, 1, busy, error, loads)
           /\ ev' = Event("select", ticker, 1, Empty, 0)
           /\ UNCHANGED <<watchlist, prices, news, newsHasNext, latest,
                          initialRefresh, mutations, server>>

\* NewsPagination's Prev, App.jsx 57 and 277
OnPrev ==
    /\ gestures < MaxGestures
    /\ gestures' = gestures + 1
    /\ ~PrevDisabled
    /\ Commit(selectedTicker, PrevPage(newsPage), busy, error, loads)
    /\ ev' = Event("prev", selectedTicker, PrevPage(newsPage), Empty, 0)
    /\ UNCHANGED <<watchlist, prices, news, newsHasNext, latest,
                   initialRefresh, mutations, server>>

\* NewsPagination's Next, App.jsx 61 and 278
OnNext ==
    /\ gestures < MaxGestures
    /\ gestures' = gestures + 1
    /\ ~NextDisabled
    /\ Commit(selectedTicker, NextPage(newsPage), busy, error, loads)
    /\ ev' = Event("next", selectedTicker, NextPage(newsPage), Empty, 0)
    /\ UNCHANGED <<watchlist, prices, news, newsHasNext, latest,
                   initialRefresh, mutations, server>>

\* ------------------------------------------------------------- addTicker
Mutation(kind, ticker, sel, pc, status) ==
    [kind |-> kind, ticker |-> ticker, sel |-> sel, pc |-> pc, status |-> status]

\* The add form's submit, App.jsx 223-226 and 234, and addTicker up to its
\* first await, App.jsx 132-144.
SubmitAdd ==
    /\ gestures < MaxGestures
    /\ gestures' = gestures + 1
    /\ \E raw \in RawInputs :
           LET cleanTicker == sanitizeTicker(raw) IN
           /\ ~AddDisabled
           /\ IF cleanTicker = Empty
              THEN /\ ev' = Event("addNoop", Empty, newsPage, selectedTicker, 0)
                   /\ UNCHANGED <<watchlist, selectedTicker, prices, news, newsPage,
                                  newsHasNext, latest, busy, error, initialRefresh,
                                  mutations, loads, server>>
              ELSE /\ mutations' = mutations (+)
                          One(Mutation("add", cleanTicker, selectedTicker, "request", 0))
                   /\ Commit(selectedTicker, newsPage, TRUE, NoError, loads)
                   /\ ev' = Event("addStart", cleanTicker, newsPage, selectedTicker, 0)
                   /\ UNCHANGED <<watchlist, prices, news, newsHasNext, latest,
                                  initialRefresh, server>>

\* The selection addTicker leaves after a successful refresh: refreshWatchlist's
\* choice is overwritten by setSelectedTicker(cleanTicker), App.jsx 148-149.
AddSelection(m, current, tickers) ==
    LET afterRefresh == RefreshSelection(m.sel, current, tickers) IN m.ticker

\* The POST's response arrives, App.jsx 140-147, and on failure 152-156.
AddPostResponse ==
    \E m \in BagToSet(mutations), down \in BOOLEAN :
        LET r == IF down THEN [status |-> 500, list |-> server]
                 ELSE ServerPost(server, m.ticker) IN
        /\ m.kind = "add"
        /\ m.pc = "request"
        /\ server' = r.list
        /\ IF AddAccepts(r.status)
           THEN /\ mutations' = (mutations (-) One(m)) (+)
                       One(Mutation("add", m.ticker, m.sel, "refresh", r.status))
                /\ ev' = Event("addPosted", m.ticker, newsPage, m.sel, r.status)
                /\ UNCHANGED <<watchlist, selectedTicker, prices, news, newsPage,
                               newsHasNext, latest, busy, error, initialRefresh, loads>>
           ELSE /\ mutations' = mutations (-) One(m)
                /\ Commit(selectedTicker, newsPage, FALSE, AddError, loads)
                /\ ev' = Event("addFailed", m.ticker, newsPage, m.sel, r.status)
                /\ UNCHANGED <<watchlist, prices, news, newsHasNext, latest,
                               initialRefresh>>
        /\ UNCHANGED gestures

\* AddRefreshResponse with the bug of selecting the ticker before the refresh
\* has succeeded.
AddRefreshResponse_SelectsFirst ==
    \E m \in BagToSet(mutations), down \in BOOLEAN :
        /\ m.kind = "add"
        /\ m.pc = "refresh"
        /\ mutations' = mutations (-) One(m)
        /\ IF down
           THEN /\ Commit(m.ticker, 1, FALSE, AddError, loads)
                /\ ev' = Event("addFailed", m.ticker, newsPage, m.sel, 500)
                /\ UNCHANGED watchlist
           ELSE /\ watchlist' = server
                /\ Commit(AddSelection(m, selectedTicker, server), 1, FALSE, error, loads)
                /\ ev' = Event("addDone", m.ticker, 1, m.sel, m.status)
        /\ UNCHANGED <<prices, news, newsHasNext, latest, initialRefresh, server>>
        /\ UNCHANGED gestures

\* The refresh's GET /watchlist answers, App.jsx 148-156 with 85-93.
AddRefreshResponse ==
    \E m \in BagToSet(mutations), down \in BOOLEAN :
        /\ m.kind = "add"
        /\ m.pc = "refresh"
        /\ mutations' = mutations (-) One(m)
        /\ IF down
           THEN /\ Commit(selectedTicker, newsPage, FALSE, AddError, loads)
                /\ ev' = Event("addFailed", m.ticker, newsPage, m.sel, 500)
                /\ UNCHANGED watchlist
           ELSE /\ watchlist' = server
                /\ Commit(AddSelection(m, selectedTicker, server), 1, FALSE, error, loads)
                /\ ev' = Event("addDone", m.ticker, 1, m.sel, m.status)
        /\ UNCHANGED <<prices, news, newsHasNext, latest, initialRefresh, server>>
        /\ UNCHANGED gestures

\* ---------------------------------------------------------- removeTicker
\* A row's Remove button, App.jsx 252-259, and removeTicker up to its first
\* await, App.jsx 159-163.
SubmitRemove ==
    /\ gestures < MaxGestures
    /\ gestures' = gestures + 1
    /\ \E i \in 1..Len(watchlist) :
           LET ticker == watchlist[i] IN
           /\ ~RemoveDisabled
           /\ mutations' = mutations (+)
                  One(Mutation("remove", ticker, selectedTicker, "request", 0))
           /\ Commit(selectedTicker, newsPage, TRUE, NoError, loads)
           /\ ev' = Event("removeStart", ticker, newsPage, selectedTicker, 0)
           /\ UNCHANGED <<watchlist, prices, news, newsHasNext, latest,
                          initialRefresh, server>>

\* The DELETE's response arrives, App.jsx 163-166, and on failure 169-173.
RemoveDeleteResponse ==
    \E m \in BagToSet(mutations), down \in BOOLEAN :
        LET r == IF down THEN [status |-> 500, list |-> server]
                 ELSE ServerDelete(server, m.ticker) IN
        /\ m.kind = "remove"
        /\ m.pc = "request"
        /\ server' = r.list
        /\ IF ResponseOk(r.status)
           THEN /\ mutations' = (mutations (-) One(m)) (+)
                       One(Mutation("remove", m.ticker, m.sel, "refresh", r.status))
                /\ ev' = Event("removeDeleted", m.ticker, newsPage, m.sel, r.status)
                /\ UNCHANGED <<watchlist, selectedTicker, prices, news, newsPage,
                               newsHasNext, latest, busy, error, initialRefresh, loads>>
           ELSE /\ mutations' = mutations (-) One(m)
                /\ Commit(selectedTicker, newsPage, FALSE, RemoveError, loads)
                /\ ev' = Event("removeFailed", m.ticker, newsPage, m.sel, r.status)
                /\ UNCHANGED <<watchlist, prices, news, newsHasNext, latest,
                               initialRefresh>>
        /\ UNCHANGED gestures

\* The refresh's GET /watchlist answers, App.jsx 167-173 with 85-93.
RemoveRefreshResponse ==
    \E m \in BagToSet(mutations), down \in BOOLEAN :
        /\ m.kind = "remove"
        /\ m.pc = "refresh"
        /\ mutations' = mutations (-) One(m)
        /\ IF down
           THEN /\ Commit(selectedTicker, newsPage, FALSE, RemoveError, loads)
                /\ ev' = Event("removeFailed", m.ticker, newsPage, m.sel, 500)
                /\ UNCHANGED watchlist
           ELSE /\ watchlist' = server
                /\ Commit(RefreshSelection(m.sel, selectedTicker, server), 1,
                          FALSE, error, loads)
                /\ ev' = Event("removeDone", m.ticker, 1, m.sel, m.status)
        /\ UNCHANGED <<prices, news, newsHasNext, latest, initialRefresh, server>>
        /\ UNCHANGED gestures

\* ------------------------------------------------------- initial refresh
\* The mount effect's GET /watchlist answers, App.jsx 113-119 with 85-93; its
\* closure is the first render's, where selectedTicker is "".
InitialRefreshResponse ==
    \E down \in BOOLEAN :
        /\ initialRefresh = "pending"
        /\ initialRefresh' = "done"
        /\ IF down
           THEN /\ Commit(selectedTicker, newsPage, FALSE, WatchlistError, loads)
                /\ ev' = Event("refreshFailed", Empty, newsPage, Empty, 500)
                /\ UNCHANGED watchlist
           ELSE /\ watchlist' = server
                /\ Commit(RefreshSelection(Empty, selectedTicker, server), newsPage,
                          FALSE, error, loads)
                /\ ev' = Event("refreshDone", Empty, newsPage, Empty, 200)
        /\ UNCHANGED <<prices, news, newsHasNext, latest, mutations, server>>
        /\ UNCHANGED gestures

\* ------------------------------------------------------ loadTickerDetail
\* All three fetches are fulfilled and so is Promise.all, App.jsx 102-110, then
\* .finally, 129.
LoadResolve ==
    \E l \in BagToSet(loads), has_next \in BOOLEAN :
        /\ prices' = PricePayload(l.ticker)
        /\ news' = NewsPayload(l.ticker, l.page)
        /\ newsHasNext' = has_next
        /\ latest' = LatestPayload(l.ticker)
        /\ Commit(selectedTicker, newsPage, FALSE, error, loads (-) One(l))
        /\ ev' = Event("loadApplied", l.ticker, l.page, Empty, 200)
        /\ UNCHANGED <<watchlist, initialRefresh, mutations, server>>
        /\ UNCHANGED gestures

\* LoadReject with the bug of clearing the view when the load fails.
LoadReject_ClearsView ==
    \E l \in BagToSet(loads), rejected \in Fetches :
        /\ prices' = <<>>
        /\ news' = <<>>
        /\ latest' = <<>>
        /\ Commit(selectedTicker, newsPage, FALSE, DetailError, loads (-) One(l))
        /\ ev' = Event("loadFailed", l.ticker, l.page, Empty, 500)
        /\ UNCHANGED <<watchlist, newsHasNext, initialRefresh, mutations, server,
                       gestures>>

\* LoadReject with the bug of a .catch that is not followed by .finally.
LoadReject_KeepsBusy ==
    \E l \in BagToSet(loads), rejected \in Fetches :
        /\ Commit(selectedTicker, newsPage, busy, DetailError, loads (-) One(l))
        /\ ev' = Event("loadFailed", l.ticker, l.page, Empty, 500)
        /\ UNCHANGED <<watchlist, prices, news, newsHasNext, latest,
                       initialRefresh, mutations, server, gestures>>

\* LoadReject with the bug of showing the prices although another fetch failed.
LoadReject_AppliesPartial ==
    \E l \in BagToSet(loads), rejected \in Fetches :
        /\ prices' = IF rejected # "prices" THEN PricePayload(l.ticker) ELSE prices
        /\ Commit(selectedTicker, newsPage, FALSE, DetailError, loads (-) One(l))
        /\ ev' = Event("loadFailed", l.ticker, l.page, Empty, 500)
        /\ UNCHANGED <<watchlist, news, newsHasNext, latest,
                       initialRefresh, mutations, server, gestures>>

\* One of the three fetches is rejected, and Promise.all with it, App.jsx
\* 102-106, then .catch and .finally, 128-129.
LoadReject ==
    \E l \in BagToSet(loads), rejected \in Fetches :
        /\ Commit(selectedTicker, newsPage, FALSE, DetailError, loads (-) One(l))
        /\ ev' = Event("loadFailed", l.ticker, l.page, Empty, 500)
        /\ UNCHANGED <<watchlist, prices, news, newsHasNext, latest,
                       initialRefresh, mutations, server>>
        /\ UNCHANGED gestures

\* ----------------------------------------------------------------- system
Next ==
    \/ SelectChip
    \/ SelectRow
    \/ OnPrev
    \/ OnNext
    \/ SubmitAdd
    \/ AddPostResponse
    \/ AddRefreshResponse
    \/ SubmitRemove
    \/ RemoveDeleteResponse
    \/ RemoveRefreshResponse
    \/ InitialRefreshResponse
    \/ LoadResolve
    \/ LoadReject

Spec == Init /\ [][Next]_vars

\* =================================================================== claims

\* C1: a detail load's result is written to prices/news/hasNext/latest only
\* when it belongs to the most recently issued (ticker, page) pair, which is
\* the pair on screen whenever a ticker is selected; a response of an abandoned
\* pair is never applied.
C1_StaleResultDiscarded ==
    (ev.op = "loadApplied" /\ selectedTicker # Empty)
        => (ev.ticker = selectedTicker /\ ev.page = newsPage)

\* C2: a detail load of which one fetch fails writes none of prices, news and
\* latest, and records the detail error.
C2_FailedLoadKeepsView ==
    [][ev'.op = "loadFailed"
         => (prices' = prices /\ news' = news /\ latest' = latest
             /\ error' = DetailError)]_vars

\* A load of MSFT failed while AAPL's detail, loaded before, stays on screen.
C2_Witness ==
    /\ ev.op = "loadFailed"
    /\ ev.ticker = MSFT
    /\ prices = PricePayload(AAPL)
    /\ news = NewsPayload(AAPL, 1)
    /\ latest = LatestPayload(AAPL)
    /\ error = DetailError

\* C3: when add(t) resolves successfully, the normalized ticker occurs exactly
\* once in the local watchlist, is the selected ticker, and the news page is 1.
C3_AddedOnceAndSelected ==
    ev.op = "addDone"
        => (Count(watchlist, ev.ticker) = 1 /\ selectedTicker = ev.ticker
            /\ newsPage = 1)

\* C4: an add answered 409 (already present) is a success: when it resolves the
\* ticker occurs exactly once in the watchlist and the add has recorded no error.
C4_ConflictIsIdempotent ==
    (ev.op = "addDone" /\ ev.status = 409)
        => (Count(watchlist, ev.ticker) = 1 /\ error # AddError)

C6_SelectionInWatchlist ==
    selectedTicker = Empty \/ Includes(watchlist, selectedTicker)

\* C7: a step that changes the selected ticker, and so issues a detail load for
\* the new ticker, leaves the news page at 1.
C7_PageResetOnTickerChange ==
    [][(selectedTicker' # selectedTicker /\ selectedTicker' # Empty)
         => newsPage' = 1]_vars

\* C8: when the removal of the ticker that was selected resolves successfully,
\* the selection is the first entry of the refreshed watchlist, or empty if
\* that list is empty.
C8_RemoveSelectsFirst ==
    (ev.op = "removeDone" /\ ev.sel = ev.ticker)
        => selectedTicker = First(watchlist)

\* C9: a refresh replaces the watchlist with the server's list and keeps the
\* selection current when its response is applied if the server's list holds
\* it; otherwise it selects the first ticker of the list, or none.
C9_RefreshKeepsCurrentSelection ==
    [][ev'.op \in {"refreshDone", "removeDone"}
         => (/\ watchlist' = server'
             /\ selectedTicker' =
                    IF selectedTicker # Empty /\ Includes(server', selectedTicker)
                    THEN selectedTicker
                    ELSE First(server'))]_vars

Idle == initialRefresh = "done" /\ mutations = EmptyBag /\ loads = EmptyBag

\* C10: once every started operation has completed, busy is false.
C10_BusyReleased == Idle => busy = FALSE

\* Everything has completed, the last operation by a failure, and busy is clear.
C10_Witness ==
    /\ Idle
    /\ ev.op \in {"loadFailed", "addFailed", "removeFailed", "refreshFailed"}
    /\ gestures > 0
    /\ busy = FALSE

FailureOps == {"loadFailed", "addFailed", "removeFailed", "refreshFailed"}
SuccessOps == {"loadApplied", "addDone", "removeDone", "refreshDone"}

\* the message the catch handler of the failed operation records
FailureMessage(op) ==
    CASE op = "loadFailed" -> DetailError
      [] op = "addFailed" -> AddError
      [] op = "removeFailed" -> RemoveError
      [] op = "refreshFailed" -> WatchlistError

\* this step has issued a detail load
LoadIssued == BagCardinality(loads') > BagCardinality(loads)

\* C11 as stated: in the state a successful completion leaves, the error is
\* empty, also when the operation overlapped one that failed.
C11_SuccessClearsError == ev.op \in SuccessOps => error = NoError

\* C11 as amended: a failure replaces the error by its own message; the error
\* is cleared when an operation starts; a successful completion records no
\* error and clears none; nothing but a failure records an error.
C11_ErrorIsLatestFailure ==
    [][/\ ev'.op \in FailureOps => error' = FailureMessage(ev'.op)
       /\ (ev'.op \in {"addStart", "removeStart"} \/ LoadIssued) => error' = NoError
       /\ (ev'.op \in SuccessOps /\ ~LoadIssued) => error' = error
       /\ (error' # error /\ error' # NoError) => ev'.op \in FailureOps]_vars

\* A load has been applied while the error of an overlapping failed load stays.
C11_Witness ==
    /\ ev.op = "loadApplied"
    /\ error = DetailError
    /\ loads = EmptyBag

\* C12: the step in which an add fails, at the POST or at the refresh, leaves
\* watchlist, selected ticker and news page as they were, records the add
\* error and clears busy.
C12_FailedAddKeepsState ==
    [][ev'.op = "addFailed"
         => (/\ watchlist' = watchlist
             /\ selectedTicker' = selectedTicker
             /\ newsPage' = newsPage
             /\ error' = AddError
             /\ busy' = FALSE)]_vars

\* The refresh after an accepted POST has failed: the server's list holds the
\* ticker after those of the local watchlist, the local watchlist does not
\* hold it, and the ticker has not been selected.
C12_Witness ==
    /\ ev.op = "addFailed"
    /\ watchlist # <<>>
    /\ server = Append(watchlist, ev.ticker)
    /\ mutations = EmptyBag
    /\ Includes(server, ev.ticker)
    /\ ~Includes(watchlist, ev.ticker)
    /\ selectedTicker # ev.ticker
    /\ error = AddError
    /\ busy = FALSE

\* C13: while the selection is empty, no prices, news or analysis are shown.
C13_EmptySelectionEmptyView ==
    selectedTicker = Empty => (prices = <<>> /\ news = <<>> /\ latest = <<>>)

\* C14: every increment of the news page is a step of one page taken in a
\* state where hasNext is true.
C14_NextNeedsHasNext ==
    [][newsPage' > newsPage => (newsHasNext /\ newsPage' = newsPage + 1)]_vars

\* Next has been clicked and the page is 2.
C14_Witness == ev.op = "next" /\ newsPage = 2

\* C15: the news page is an integer not below 1.
C15_PageAtLeastOne == newsPage \in Nat /\ newsPage >= 1

\* Prev has been clicked on page 2 and the page is 1.
C15_Witness == ev.op = "prev" /\ newsPage = 1 /\ ev.page = 1

\* C16: prices, news and analysis on display come from one load: either none
\* is shown, or all three are those of one ticker.
C16_OneSnapshot ==
    \/ prices = <<>> /\ news = <<>> /\ latest = <<>>
    \/ \E i \in 1..Len(news) :
           /\ prices = PricePayload(news[i][1])
           /\ news = NewsPayload(news[i][1], news[i][2])
           /\ latest = LatestPayload(news[i][1])

\* A second ticker's load has been applied over the first one's, and a load
\* has failed in between or after.
C16_Witness ==
    /\ prices = PricePayload(MSFT)
    /\ news = NewsPayload(MSFT, 1)
    /\ latest = LatestPayload(MSFT)
    /\ ev.op = "loadFailed"
    /\ ev.ticker = AAPL

\* C17: busy is true whenever an operation is in flight.
C17_BusyWhileInFlight == ~Idle => busy = TRUE

\* C18: at most one add or remove is in flight.
C18_MutationsExclusive == BagCardinality(mutations) <= 1

\* C19: Next advances the page of the selected ticker only when the news and
\* hasNext on display are those of the selected ticker's current page.
C19_NextIsTickerScoped ==
    [][ev'.op = "next"
         => (newsHasNext /\ news = NewsPayload(selectedTicker, newsPage))]_vars

====
